---- MODULE Spec2Model ----
(***************************************************************************)
(* Model of src/minesweeper.py: the Minesweeper board (class Minesweeper)  *)
(* and the inference agent (classes Sentence and MinesweeperAI).           *)
(*                                                                         *)
(* A cell is a pair <<row, column>>.  A Sentence is a record               *)
(* [cells |-> set of cells, count |-> integer].  The knowledge base is a   *)
(* sequence of sentences, in list order, because the source iterates the   *)
(* list by index while removing from it and removes "the first element     *)
(* equal to", both of which depend on the order.                           *)
(***************************************************************************)
EXTENDS Integers, Sequences, FiniteSets, TLC

\* ---- bounds of the model ------------------------------------------------
Height == 3          \* rows of the board and of the agent
Width == 3           \* columns of the board and of the agent
MaxMines == 1        \* the board holds at most this many mines
MaxCalls == 3        \* the agent is changed by at most this many calls

\* ---- program constants --------------------------------------------------
\* the literal 7 of the bounds test of add_knowledge (line 214)
MaxIndex == 7

\* the literal 8 of the grid that make_random_move builds (lines 301-302)
GridSize == 8

VARIABLES
    board,                      \* Minesweeper.mines: the cells that hold a mine
    moves_made,                 \* MinesweeperAI.moves_made
    mines,                      \* MinesweeperAI.mines
    safes,                      \* MinesweeperAI.safes
    knowledge,                  \* MinesweeperAI.knowledge (list of Sentence)
    cell,                       \* argument `cell` of the last call that took one
    cells_to_add_to_sentence,   \* local of the last add_knowledge (line 211)
    condensed_data,             \* local of the last add_knowledge (line 231)
    calls,                      \* number of calls that changed the agent
    op,                         \* name of the last method called on the agent
    move                        \* value returned by the last call

vars == <<board, moves_made, mines, safes, knowledge, cell,
          cells_to_add_to_sentence, condensed_data, calls, op, move>>

\* the cells of the height x width grid (lines 18-22)
BoardCells == {<<i, j>> : i \in 0..(Height - 1), j \in 0..(Width - 1)}

\* value of `cell` before the first call
NoCell == <<-1, -1>>

\* Python's None as a return value: a value that is no cell
None == <<-2, -2>>

\* the grid of make_random_move (lines 299-303)
Grid == {<<i, j>> : i \in 0..(GridSize - 1), j \in 0..(GridSize - 1)}

\* ---- class Minesweeper --------------------------------------------------

\* Minesweeper.is_mine
is_mine(c) == c \in board

\* nearby_mines with the row range one short: range(cell[0] - 1, cell[0] + 1)
nearby_mines_short_range(c) ==
    Cardinality({n \in {<<i, j>> : i \in (c[1] - 1)..c[1],
                                   j \in (c[2] - 1)..(c[2] + 1)} :
                    /\ n # c
                    /\ 0 <= n[1] /\ n[1] < Height
                    /\ 0 <= n[2] /\ n[2] < Width
                    /\ n \in board})

\* Minesweeper.nearby_mines: mines within one row and column of c, c excluded,
\* clipped to the board
nearby_mines(c) ==
    Cardinality({n \in {<<i, j>> : i \in (c[1] - 1)..(c[1] + 1),
                                   j \in (c[2] - 1)..(c[2] + 1)} :
                    /\ n # c
                    /\ 0 <= n[1] /\ n[1] < Height
                    /\ 0 <= n[2] /\ n[2] < Width
                    /\ n \in board})

\* ---- class Sentence -----------------------------------------------------

\* Sentence.__init__
Sentence(cells, count) == [cells |-> cells, count |-> count]

\* Sentence.known_mines
known_mines(s) == IF Cardinality(s.cells) = s.count THEN s.cells ELSE {}

\* Sentence.known_safes with the test of known_mines
known_safes_when_full(s) == IF Cardinality(s.cells) = s.count THEN s.cells ELSE {}

\* Sentence.known_safes
known_safes(s) == IF s.count = 0 THEN s.cells ELSE {}

\* Sentence.mark_mine that forgets `self.count -= 1`
Sentence_mark_mine_keeps_count(s, c) ==
    IF c \in s.cells
    THEN [cells |-> s.cells \ {c}, count |-> s.count]
    ELSE s

\* Sentence.mark_mine
Sentence_mark_mine(s, c) ==
    IF c \in s.cells
    THEN [cells |-> s.cells \ {c}, count |-> s.count - 1]
    ELSE s

\* Sentence.mark_safe
Sentence_mark_safe(s, c) ==
    IF c \in s.cells
    THEN [cells |-> s.cells \ {c}, count |-> s.count]
    ELSE s

\* ---- Python list operations on the knowledge base -----------------------

\* `x in lst`, with Sentence.__eq__ (equality of cells and of count)
Contains(lst, x) == \E k \in 1..Len(lst) : lst[k] = x

\* lst.remove(x): drops the first element equal to x
Remove(lst, x) ==
    IF ~Contains(lst, x) THEN lst
    ELSE LET k == CHOOSE n \in 1..Len(lst) :
                      /\ lst[n] = x
                      /\ \A m \in 1..(n - 1) : lst[m] # x
         IN [n \in 1..(Len(lst) - 1) |-> IF n < k THEN lst[n] ELSE lst[n + 1]]

\* ---- class MinesweeperAI ------------------------------------------------
\* The agent's fields travel through the helpers as a record a with (at
\* least) the fields knowledge, safes and mines.

\* MinesweeperAI.mark_mine that marks only the first sentence of the list
mark_mine_first_sentence(a, c) ==
    [a EXCEPT !.mines = @ \cup {c},
              !.knowledge = [k \in 1..Len(@) |->
                                IF k = 1 THEN Sentence_mark_mine(@[k], c)
                                ELSE @[k]]]

\* MinesweeperAI.mark_mine
mark_mine(a, c) ==
    [a EXCEPT !.mines = @ \cup {c},
              !.knowledge = [k \in 1..Len(@) |-> Sentence_mark_mine(@[k], c)]]

\* MinesweeperAI.mark_safe
mark_safe(a, c) ==
    [a EXCEPT !.safes = @ \cup {c},
              !.knowledge = [k \in 1..Len(@) |-> Sentence_mark_safe(@[k], c)]]

\* lines 193-207 without the call self.mark_safe(cell)
RecordMove_unmarked(a, c) ==
    LET a1 == [a EXCEPT !.moves_made = @ \cup {c}]
    IN [a1 EXCEPT !.knowledge =
            [k \in 1..Len(@) |-> Sentence_mark_safe(@[k], c)]]

\* add_knowledge, lines 193-207: record the move, mark the cell safe if it is
\* not yet known safe, then remove the cell from every sentence
RecordMove(a, c) ==
    LET a1 == [a EXCEPT !.moves_made = @ \cup {c}]
        a2 == IF c \notin a1.safes THEN mark_safe(a1, c) ELSE a1
    IN [a2 EXCEPT !.knowledge =
            [k \in 1..Len(@) |-> Sentence_mark_safe(@[k], c)]]

\* add_knowledge, lines 210-216: the cells of the new sentence.  In the test
\* of line 215 `and` binds tighter than `or`.
NeighbourCells(c, moves) ==
    {n \in {<<c[1] + i, c[2] + j>> : i \in -1..1, j \in -1..1} :
        /\ n[1] >= 0 /\ n[2] >= 0 /\ n[1] <= MaxIndex /\ n[2] <= MaxIndex
        /\ \/ n[1] - c[1] # 0
           \/ (n[2] - c[2] # 0 /\ ~(n \in moves))}

\* The loops of add_knowledge work on a record st that carries the agent's
\* fields and the local new_sentence.  new_sentence is the object appended
\* to the list at line 219, so every mark applied to the list is applied to
\* it as well; once it has left the list it is empty and no mark changes it.

\* lines 226-227: for safe in safe_cells: self.mark_safe(safe)
RECURSIVE MarkSafeCells(_, _)
MarkSafeCells(st, cs) ==
    IF cs = {} THEN st
    ELSE LET c == CHOOSE x \in cs : TRUE
         IN MarkSafeCells([mark_safe(st, c) EXCEPT
                              !.new_sentence = Sentence_mark_safe(@, c)],
                          cs \ {c})

\* lines 228-229: for mine in mine_cells: self.mark_mine(mine)
RECURSIVE MarkMineCells(_, _)
MarkMineCells(st, cs) ==
    IF cs = {} THEN st
    ELSE LET c == CHOOSE x \in cs : TRUE
         IN MarkMineCells([mark_mine(st, c) EXCEPT
                              !.new_sentence = Sentence_mark_mine(@, c)],
                          cs \ {c})

\* lines 221-229: one pass over the list by index i.  Removing an element
\* during the pass shifts the rest left, so the element that followed the
\* current one is skipped.
RECURSIVE PropagateLoop(_, _)
PropagateLoop(st, i) ==
    IF i > Len(st.knowledge) THEN st
    ELSE LET sentence == st.knowledge[i]
             st1 == IF Cardinality(sentence.cells) = 0
                    THEN [st EXCEPT !.knowledge = Remove(@, sentence)]
                    ELSE st
             safe_cells == known_safes(sentence)
             mine_cells == known_mines(sentence)
             st2 == MarkSafeCells(st1, safe_cells)
             st3 == MarkMineCells(st2, mine_cells)
         IN PropagateLoop(st3, i + 1)

\* the difference with its counts subtracted the wrong way round
Difference_swapped(big, small) ==
    Sentence(big.cells \ small.cells, small.count - big.count)

\* lines 244-247 and 253-256: the sentence derived from a sentence and a
\* subset of it
Difference(big, small) ==
    Sentence(big.cells \ small.cells, big.count - small.count)

\* lines 235-264: one pass over the list by index i, comparing each sentence
\* with new_sentence.  st.sentence is the loop variable, which the code
\* reads again after the loop.
RECURSIVE CondenseLoop(_, _)
CondenseLoop(st, i) ==
    IF i > Len(st.knowledge) THEN st
    ELSE LET sentence == st.knowledge[i]
             new_sentence == st.new_sentence
             s0 == [st EXCEPT !.sentence = sentence]
             s1 ==
               IF Cardinality(sentence.cells) = 0
               THEN [s0 EXCEPT !.knowledge = Remove(@, sentence)]
               ELSE IF Cardinality(sentence.cells) = Cardinality(new_sentence.cells)
               THEN s0
               ELSE IF new_sentence.cells \subseteq sentence.cells
               THEN [s0 EXCEPT
                       !.data_to_be_removed = @ \o <<new_sentence, sentence>>,
                       !.condensed_data =
                           Append(@, Difference(sentence, new_sentence))]
               ELSE IF sentence.cells \subseteq new_sentence.cells
               THEN [s0 EXCEPT
                       !.data_to_be_removed = @ \o <<new_sentence, sentence>>,
                       !.condensed_data =
                           Append(@, Difference(new_sentence, sentence))]
               ELSE [s0 EXCEPT !.knowledge[i].cells = @ \ st.moves_made,
                               !.sentence.cells = @ \ st.moves_made]
         IN CondenseLoop(s1, i + 1)

\* lines 268-270: for sentence in data_to_be_removed: remove it if present
RECURSIVE RemoveAll(_, _, _)
RemoveAll(lst, rem, k) ==
    IF k > Len(rem) THEN lst
    ELSE RemoveAll(IF Contains(lst, rem[k]) THEN Remove(lst, rem[k]) ELSE lst,
                   rem, k + 1)

\* lines 275-277: for sentence in condensed_data: append it unless present
RECURSIVE AppendNew(_, _, _)
AppendNew(lst, add, k) ==
    IF k > Len(add) THEN lst
    ELSE AppendNew(IF ~Contains(lst, add[k]) THEN Append(lst, add[k]) ELSE lst,
                   add, k + 1)

\* lines 266-280: drop the sentences that were condensed, add the results.
\* Where a list has exactly one element the code tests the loop variable
\* `sentence` left by the last loop that ran, not the element itself.
Conclude(st) ==
    LET rem == st.data_to_be_removed
        con == st.condensed_data
        k1 == IF Len(rem) > 1 THEN RemoveAll(st.knowledge, rem, 1)
              ELSE IF Len(rem) = 1
              THEN IF Contains(st.knowledge, st.sentence)
                   THEN Remove(st.knowledge, rem[1]) ELSE st.knowledge
              ELSE st.knowledge
        sentence == IF Len(rem) > 1 THEN rem[Len(rem)] ELSE st.sentence
        k2 == IF Len(con) > 1 THEN AppendNew(k1, con, 1)
              ELSE IF Len(con) = 1
              THEN IF ~Contains(k1, sentence)
                   THEN Append(k1, con[1]) ELSE k1
              ELSE k1
    IN [st EXCEPT !.knowledge = k2]

\* MinesweeperAI.add_knowledge, the whole method.  The record returned holds
\* the agent's fields on return and the locals of the call.  The field
\* `sentence` starts with a placeholder: the code reads the loop variable
\* only after a loop that has assigned it.
add_knowledge(a, c, count) ==
    LET a1 == RecordMove(a, c)
        new_sentence == Sentence(NeighbourCells(c, a1.moves_made), count)
        st0 == [knowledge |-> Append(a1.knowledge, new_sentence),
                safes |-> a1.safes, mines |-> a1.mines,
                moves_made |-> a1.moves_made,
                cells_to_add_to_sentence |-> new_sentence.cells,
                new_sentence |-> new_sentence,
                sentence |-> new_sentence,
                condensed_data |-> <<>>, data_to_be_removed |-> <<>>]
    IN Conclude(CondenseLoop(PropagateLoop(st0, 1), 1))

\* make_safe_move without the test `not move in self.moves_made`
make_safe_move_any_safe(a) ==
    IF Cardinality(a.safes) = 0 THEN {None}
    ELSE a.safes

\* MinesweeperAI.make_safe_move: the values the call can return.  The loop
\* returns the first cell of safes, in the iteration order of the set, that
\* is not in moves_made; that order is the implementation's, so every such
\* cell is a possible result.  A loop that ends without a return yields None.
make_safe_move(a) ==
    IF Cardinality(a.safes) = 0 THEN {None}
    ELSE IF a.safes \ a.moves_made # {} THEN a.safes \ a.moves_made
    ELSE {None}

\* make_random_move without the test `not move in self.mines`
make_random_move_keeps_mines(a) ==
    LET possible_moves == Grid \ a.moves_made
        unlisted == {m \in possible_moves :
                        \E k \in 1..Len(a.knowledge) :
                            m \notin a.knowledge[k].cells}
    IN IF unlisted # {} THEN unlisted
       ELSE IF Cardinality(possible_moves) # 1
               /\ Cardinality(possible_moves) # 0
       THEN possible_moves
       ELSE {None}

\* MinesweeperAI.make_random_move: the values the call can return.
\* possible_moves lists the grid cells outside moves_made and mines in the
\* iteration order of a set.  Lines 314-317 return the first of them that
\* SOME sentence does not hold; otherwise line 319 draws from the list when
\* it has two or more elements.  With one element line 323 evaluates
\* possible_moves[0] without returning it, so the call yields None.
make_random_move(a) ==
    LET possible_moves == (Grid \ a.moves_made) \ a.mines
        unlisted == {m \in possible_moves :
                        \E k \in 1..Len(a.knowledge) :
                            m \notin a.knowledge[k].cells}
    IN IF unlisted # {} THEN unlisted
       ELSE IF Cardinality(possible_moves) # 1
               /\ Cardinality(possible_moves) # 0
       THEN possible_moves
       ELSE {None}

\* ---- state machine ------------------------------------------------------

\* Minesweeper.__init__ places the mines; MinesweeperAI.__init__ starts empty
Init ==
    /\ board \in {b \in SUBSET BoardCells : Cardinality(b) <= MaxMines}
    /\ moves_made = {}
    /\ mines = {}
    /\ safes = {}
    /\ knowledge = <<>>
    /\ cell = NoCell
    /\ cells_to_add_to_sentence = {}
    /\ condensed_data = <<>>
    /\ calls = 0
    /\ op = "__init__"
    /\ move = None

\* the agent's fields
Agent ==
    [knowledge |-> knowledge, safes |-> safes, mines |-> mines,
     moves_made |-> moves_made]

\* a call add_knowledge(c, count) on the agent; the method returns None
Call_add_knowledge(c, count) ==
    /\ \E r \in {add_knowledge(Agent, c, count)} :
          /\ knowledge' = r.knowledge
          /\ safes' = r.safes
          /\ mines' = r.mines
          /\ moves_made' = r.moves_made
          /\ cells_to_add_to_sentence' = r.cells_to_add_to_sentence
          /\ condensed_data' = r.condensed_data
    /\ cell' = c
    /\ calls' = calls + 1
    /\ op' = "add_knowledge"
    /\ move' = None
    /\ UNCHANGED board

\* the game loop reveals a cell that is not a mine and reports its count
AddKnowledge(c) ==
    /\ calls < MaxCalls
    /\ ~is_mine(c)
    /\ Call_add_knowledge(c, nearby_mines(c))

Next == \E c \in BoardCells : AddKnowledge(c)

Spec == Init /\ [][Next]_vars

\* ---- the agent proposes moves --------------------------------------------

\* the boards of the two worked examples: no mine, or one mine at (0, 0)
InitScenario ==
    /\ Init
    /\ board \subseteq {<<0, 0>>}

\* a call make_safe_move(); it reads the agent and changes nothing
MakeSafeMove ==
    /\ move = None
    /\ \E r \in make_safe_move(Agent) : move' = r
    /\ op' = "make_safe_move"
    /\ UNCHANGED <<board, moves_made, mines, safes, knowledge, cell,
                   cells_to_add_to_sentence, condensed_data, calls>>

\* a call make_random_move(); it reads the agent and changes nothing
MakeRandomMove ==
    /\ move = None
    /\ \E r \in make_random_move(Agent) : move' = r
    /\ op' = "make_random_move"
    /\ UNCHANGED <<board, moves_made, mines, safes, knowledge, cell,
                   cells_to_add_to_sentence, condensed_data, calls>>

\* the player reveals a cell of their own choice
HumanMove ==
    /\ move = None
    /\ \E c \in BoardCells : AddKnowledge(c)

\* the game loop plays the cell the agent proposed
AIMove ==
    /\ move # None
    /\ move \in BoardCells
    /\ AddKnowledge(move)

NextMoves == HumanMove \/ AIMove \/ MakeSafeMove \/ MakeRandomMove

SpecMoves == InitScenario /\ [][NextMoves]_vars

\* ---- the mark operations called from outside ----------------------------

\* a call mark_safe(c) for a cell of the board that holds no mine
MarkSafe(c) ==
    /\ calls < MaxCalls
    /\ ~is_mine(c)
    /\ \E r \in {mark_safe(Agent, c)} :
          /\ knowledge' = r.knowledge
          /\ safes' = r.safes
          /\ mines' = r.mines
          /\ moves_made' = r.moves_made
    /\ cell' = c
    /\ calls' = calls + 1
    /\ op' = "mark_safe"
    /\ move' = None
    /\ UNCHANGED <<board, cells_to_add_to_sentence, condensed_data>>

\* a call mark_mine(c) for a cell of the board that holds a mine
MarkMine(c) ==
    /\ calls < MaxCalls
    /\ is_mine(c)
    /\ \E r \in {mark_mine(Agent, c)} :
          /\ knowledge' = r.knowledge
          /\ safes' = r.safes
          /\ mines' = r.mines
          /\ moves_made' = r.moves_made
    /\ cell' = c
    /\ calls' = calls + 1
    /\ op' = "mark_mine"
    /\ move' = None
    /\ UNCHANGED <<board, cells_to_add_to_sentence, condensed_data>>

NextMarks ==
    \E c \in BoardCells : AddKnowledge(c) \/ MarkSafe(c) \/ MarkMine(c)

SpecMarks == InitScenario /\ [][NextMarks]_vars

\* ---- a sweep of the default board --------------------------------------
\* MinesweeperAI() and make_random_move work on an 8 x 8 grid (lines 144,
\* 301-302).  On an 8 x 8 game without mines every revealed cell reports
\* the count 0.

\* position of a cell of the grid in row-major order
RowMajor(c) == c[1] * GridSize + c[2]

\* the player sweeps the grid from both ends: the next cell revealed is the
\* first or the last unplayed cell in row-major order
SweepCells ==
    LET rest == Grid \ moves_made
    IN {c \in rest : \/ \A d \in rest : RowMajor(c) <= RowMajor(d)
                     \/ \A d \in rest : RowMajor(c) >= RowMajor(d)}

SweepReveal ==
    /\ move = None
    /\ \E c \in SweepCells : Call_add_knowledge(c, 0)

InitSweep ==
    /\ Init
    /\ board = {}

NextSweep == SweepReveal \/ MakeRandomMove \/ MakeSafeMove

SpecSweep == InitSweep /\ [][NextSweep]_vars

\* ---- properties ----------------------------------------------------------

\* the sentences of the knowledge base, as a set
Live == {knowledge[k] : k \in 1..Len(knowledge)}

\* the 8-connected neighbours of c, on or off the board
Neighbours(c) ==
    {<<c[1] + i, c[2] + j>> : i \in -1..1, j \in -1..1} \ {c}

C3_Propagated ==
    \A s \in Live : s.cells \cap (safes \cup mines) = {}

\* C4: when add_knowledge has returned, no sentence still yields a
\* deduction: a sentence with count 0 has all its cells in safes, a sentence
\* with count = |cells| has all its cells in mines.
C4_Fixpoint ==
    \A s \in Live :
        /\ s.count = 0 => s.cells \subseteq safes
        /\ s.count = Cardinality(s.cells) => s.cells \subseteq mines

\* C5: the sentence built by add_knowledge(cell, count) holds, among the
\* cells of the board, exactly the neighbours of cell that are not in
\* moves_made; a played cell never enters it.  (Cells outside the board are
\* the subject of C10.)
C5_NewSentenceCells ==
    calls > 0 =>
        cells_to_add_to_sentence \cap BoardCells =
            (Neighbours(cell) \cap BoardCells) \ moves_made

\* C6: when add_knowledge has returned, for any two distinct sentences A, B
\* of the knowledge base with A.cells a non-empty strict subset of B.cells,
\* the sentence (B.cells \ A.cells, B.count - A.count) is in the knowledge
\* base or its cells are all in safes or mines.
C6_Condensed ==
    \A i, j \in 1..Len(knowledge) :
        LET A == knowledge[i]
            B == knowledge[j]
        IN (i # j /\ A.cells # {} /\ A.cells \subseteq B.cells
                  /\ A.cells # B.cells)
           => \/ Sentence(B.cells \ A.cells, B.count - A.count) \in Live
              \/ (B.cells \ A.cells) \subseteq (safes \cup mines)

C8_NoEmptySentence == \A s \in Live : s.cells # {}

\* C9: after any sequence of add_knowledge calls the knowledge base holds no
\* two equal sentences (same cells and same count).
C9_NoDuplicates ==
    \A i, j \in 1..Len(knowledge) : i # j => knowledge[i] # knowledge[j]

\* C10: every cell held in a sentence, in safes or in mines lies on the
\* height x width board of the agent.
C10_InBounds ==
    /\ safes \subseteq BoardCells
    /\ mines \subseteq BoardCells
    /\ \A s \in Live : s.cells \subseteq BoardCells

\* the grid cells that are neither played nor known to be a mine
Candidates == (Grid \ moves_made) \ mines

\* the candidates that no sentence of the knowledge base holds
Unconstrained == {m \in Candidates : \A s \in Live : m \notin s.cells}

\* C11: a call of make_safe_move changes no field of the agent; it returns
\* a cell of safes that is not in moves_made whenever there is one, and it
\* returns None exactly when every cell of safes is in moves_made.
C11_SafeMove ==
    [][op' = "make_safe_move" =>
          /\ UNCHANGED <<knowledge, safes, mines, moves_made, board>>
          /\ (safes \ moves_made # {} => move' \in safes \ moves_made)
          /\ (move' = None <=> safes \subseteq moves_made)]_vars

\* a state where make_safe_move has returned a safe cell that was not played
\* although other safe cells were played
C11_Witness ==
    /\ op = "make_safe_move"
    /\ move \in safes \ moves_made
    /\ safes \cap moves_made # {}

\* C12: make_random_move returns None only when no cell of the grid is both
\* outside moves_made and outside mines; with one such cell or more it
\* returns a cell.
C12_NoneOnlyWhenExhausted ==
    (op = "make_random_move" /\ move = None) => Candidates = {}

\* C13: a cell returned by make_random_move is not in moves_made and not in
\* mines.
C13_RandomMoveLegal ==
    (op = "make_random_move" /\ move # None) =>
        (move \notin moves_made /\ move \notin mines)

\* a state where make_random_move has returned a cell while the agent knew
\* a mine
C13_Witness ==
    /\ op = "make_random_move"
    /\ move # None
    /\ mines # {}
    /\ moves_made # {}

\* C14: when some candidate is held by no sentence of the knowledge base,
\* the cell returned by make_random_move is held by no sentence; a cell held
\* by a sentence is returned only when every candidate is held by one.
C14_PrefersUnconstrained ==
    (op = "make_random_move" /\ Unconstrained # {}) =>
        move \in Unconstrained

\* C15: marking again is a no-op: a call mark_safe(c) for a cell already in
\* safes, or mark_mine(c) for a cell already in mines, leaves safes, mines,
\* moves_made and every sentence unchanged.
C15_MarkIdempotent ==
    [][/\ (op' = "mark_safe" /\ cell' \in safes) =>
              UNCHANGED <<knowledge, safes, mines, moves_made>>
       /\ (op' = "mark_mine" /\ cell' \in mines) =>
              UNCHANGED <<knowledge, safes, mines, moves_made>>]_vars

\* C19: mark_mine(c) adds c to mines, takes c out of every sentence that
\* held it and lowers that sentence's count by 1, and leaves safes,
\* moves_made and the sentences without c as they were; mark_safe(c) adds c
\* to safes, takes c out of every sentence with the count kept, and leaves
\* mines and moves_made as they were.
C19_MarkEffect ==
    [][/\ op' = "mark_mine" =>
              /\ mines' = mines \cup {cell'}
              /\ safes' = safes
              /\ moves_made' = moves_made
              /\ Len(knowledge') = Len(knowledge)
              /\ \A k \in 1..Len(knowledge) :
                     IF cell' \in knowledge[k].cells
                     THEN /\ knowledge'[k].cells = knowledge[k].cells \ {cell'}
                          /\ knowledge'[k].count = knowledge[k].count - 1
                     ELSE knowledge'[k] = knowledge[k]
       /\ op' = "mark_safe" =>
              /\ safes' = safes \cup {cell'}
              /\ mines' = mines
              /\ moves_made' = moves_made
              /\ Len(knowledge') = Len(knowledge)
              /\ \A k \in 1..Len(knowledge) :
                     /\ knowledge'[k].cells = knowledge[k].cells \ {cell'}
                     /\ knowledge'[k].count = knowledge[k].count]_vars

\* a state where mark_mine has taken the mine (0, 0) out of two sentences
\* that two add_knowledge calls had built, and has lowered both counts
C19_Witness ==
    /\ op = "mark_mine"
    /\ cell \in mines
    /\ Len(knowledge) = 2
    /\ \A k \in 1..2 : knowledge[k].count = 0 /\ knowledge[k].cells # {}
                          /\ cell \notin knowledge[k].cells

\* C16: on the 3 x 3 board with one mine at (0, 0), a fresh agent that has
\* been given add_knowledge((1,1), 1), add_knowledge((0,1), 1) and
\* add_knowledge((1,0), 1), in that order, holds (0, 0) in mines.  After two
\* calls the last cell and the set of played cells fix the order.
C16_IsolatesMine ==
    [][(/\ board = {<<0, 0>>}
        /\ calls = 2
        /\ moves_made = {<<1, 1>>, <<0, 1>>}
        /\ cell = <<0, 1>>
        /\ op' = "add_knowledge"
        /\ cell' = <<1, 0>>) => <<0, 0>> \in mines']_vars

\* C17: a sentence derived by condensation is resolved in the call that
\* derived it: if its count equals the number of its cells, all its cells
\* are in mines when the call returns; if its count is 0, all its cells are
\* in safes.
C17_CondensedResolved ==
    \A k \in 1..Len(condensed_data) :
        LET d == condensed_data[k]
        IN /\ d.count = Cardinality(d.cells) => d.cells \subseteq mines
           /\ d.count = 0 => d.cells \subseteq safes

C20_MovesAreSafe == moves_made \subseteq safes

\* a state where several cells were played and the agent still holds a
\* sentence
C20_Witness ==
    /\ Cardinality(moves_made) >= 2
    /\ knowledge # <<>>
    /\ safes \ moves_made # {}

====
